---- MODULE Spec2Model ----
(***************************************************************************)
(* A model of src/gpio.go: the GPIO device handle (OpenGPIO, GetChipInfo,  *)
(* GetLineInfo, Close), the decoding of the kernel's chip-info and v2      *)
(* line-info structures, and the rendering of line flags.                  *)
(*                                                                         *)
(* Representation of machine integers.  TLC's integers are 32 bits wide,   *)
(* so an unsigned 64-bit (or 32-bit) value is the SET OF ITS SET BIT       *)
(* POSITIONS: 0x0C is {2,3}, 0 is {}, 2^64-1 is 0..63.  Truncation to 32   *)
(* bits is the intersection with 0..31, a bit test is membership.          *)
(* Small signed C ints (ioctl's return value, errno) are TLA+ integers.    *)
(*                                                                         *)
(* Memory is little-endian (the platforms the repository supports: arm,    *)
(* aarch64, i686, x86_64).  A text is a sequence of bytes.                 *)
(*                                                                         *)
(* A handle stays reachable for the duration of every call made on it.     *)
(***************************************************************************)
EXTENDS Integers, Sequences, FiniteSets, TLC

(***************************************************************************)
(* Bounds of the model.                                                    *)
(***************************************************************************)
\* Number of handle variables the caller owns.
NumHandles == 2
\* Capacity of the fixed name/label/consumer buffers (GPIO_MAX_NAME_SIZE,
\* 32 in <linux/gpio.h>), scaled down.
NameSize == 2
\* Capacity of the raw attribute array (GPIO_V2_LINE_NUM_ATTRS_MAX, 10 in
\* <linux/gpio.h>), scaled down.
NumAttrsMax == 2

VARIABLES
    handles,    \* handles[h]: the *GPIO the caller holds in variable h
    fdtable,    \* the kernel's descriptor table of the process: fd -> path
    opened,     \* history: descriptors a successful OpenGPIO has returned
    dev,        \* what the device behind each path answers (read-only)
    last,       \* the most recent call: receiver, ioctls issued, outcome
    lineFlag,   \* a GPIOLineFlag value
    rendered    \* <<lineFlag.String()>> once String has been called, <<>> before

vars == <<handles, fdtable, opened, dev, last, lineFlag, rendered>>

(***************************************************************************)
(* Machine integers as bit sets.                                           *)
(***************************************************************************)
Pow2(k) == 2 ^ k

\* The bits of a natural number below 2^31.
Bits(n) == {k \in 0..30 : (n \div Pow2(k)) % 2 = 1}

\* Width of uintptr, the underlying type of syscall.Errno.
UintptrBits == 64

\* Conversion of a signed C int to uintptr (sign extension, two's
\* complement): syscall.Errno(err) when err is a C.int.
IntToUintptr(n) ==
    IF n >= 0 THEN Bits(n) ELSE (0..(UintptrBits - 1)) \ Bits(-n - 1)

\* uint32(v): keep the low 32 bits.
Uint32(v) == v \cap (0..31)

\* uint64(v) of a 64-bit value: unchanged.
Uint64(v) == v

\* 1 << k
Bit(k) == {k}

Min(S) == CHOOSE x \in S : \A y \in S : x <= y

(***************************************************************************)
(* OS error numbers and kernel attribute ids.                              *)
(***************************************************************************)
ENOENT == 2
EBADF == 9
EACCES == 13
EINVAL == 22
ENOTTY == 25

GPIOLineAttributeIDFlags == 1
GPIOLineAttributeIDOutputValues == 2
GPIOLineAttributeIDDebounce == 3

(***************************************************************************)
(* Go values.                                                              *)
(***************************************************************************)
NoResult == [kind |-> "nil"]
NoError == [kind |-> "nil"]
NoRaw == [kind |-> "none"]
NoHandle == [state |-> "nil", Sysfd |-> -1, name |-> ""]

\* syscall.Errno(code), code a uintptr
Errno(code) == [kind |-> "syscall.Errno", code |-> code]

\* *fs.PathError{Op: "open", Path: path, Err: syscall.Errno(e)}
PathError(path, e) ==
    [kind |-> "fs.PathError", Op |-> "open", Path |-> path, Err |-> Errno(Bits(e))]

\* os.ErrClosed wrapped by File.Close on a closed file
ErrClosed == [kind |-> "os.ErrClosed"]

Handles == 1..NumHandles
Fds == 3..(2 + NumHandles)
Free == ""

ExistingPaths == {"/dev/gpiochip0", "/dev/gpiochip1"}
Paths == ExistingPaths \cup {"/dev/gpiochip999"}
Lines == {0, 1}

(***************************************************************************)
(* Raw kernel structures (<linux/gpio.h>) and their memory image.          *)
(*   struct gpiochip_info { char name[N]; char label[N]; __u32 lines; }    *)
(*   struct gpio_v2_line_attribute { __u32 id; __u32 padding;              *)
(*       union { __u64 flags; __u64 values; __u32 debounce_period_us; }; } *)
(*   struct gpio_v2_line_info { char name[N]; char consumer[N];            *)
(*       __u32 offset; __u32 num_attrs; __u64 flags;                       *)
(*       struct gpio_v2_line_attribute attrs[M]; __u32 padding[4]; }       *)
(***************************************************************************)
ByteValues == {0, 103, 112}
BufStrings == [1..NameSize -> ByteValues]
LineCounts == {54, 16843009}
Tags == {GPIOLineAttributeIDFlags, GPIOLineAttributeIDOutputValues,
         GPIOLineAttributeIDDebounce, 99}
Payloads == {{2, 3}, {0, 31, 32, 63}}
RawAttrs == [id : Tags, payload : Payloads]

\* A byte string stored in a fixed buffer, zero filled.
Pad(s) == [i \in 1..NameSize |-> IF i <= Len(s) THEN s[i] ELSE 0]

LE32(n) ==
    <<n % 256, (n \div 256) % 256, (n \div 65536) % 256, (n \div 16777216) % 256>>

BitVal(v, i, b) == IF (8 * i + b) \in v THEN Pow2(b) ELSE 0

ByteOf(v, i) ==
    BitVal(v, i, 0) + BitVal(v, i, 1) + BitVal(v, i, 2) + BitVal(v, i, 3)
    + BitVal(v, i, 4) + BitVal(v, i, 5) + BitVal(v, i, 6) + BitVal(v, i, 7)

LE64(v) == [i \in 1..8 |-> ByteOf(v, i - 1)]

ChipMem(raw) == raw.name \o raw.label \o LE32(raw.lines)

AttrMem(attr) == LE32(attr.id) \o LE32(0) \o LE64(attr.payload)

RECURSIVE AttrsMem(_, _)
AttrsMem(attrs, i) ==
    IF i > Len(attrs) THEN <<>> ELSE AttrMem(attrs[i]) \o AttrsMem(attrs, i + 1)

LineMem(raw) ==
    raw.name \o raw.consumer \o LE32(raw.offset) \o LE32(raw.num_attrs)
    \o LE64(raw.flags) \o AttrsMem(raw.attrs, 1)
    \o LE32(0) \o LE32(0) \o LE32(0) \o LE32(0)

\* What may lie in memory after the structure: a zero byte at once, a
\* non-zero byte and then a zero byte, or no mapped zero byte at all.
Beyond == {<<0>>, <<112, 0>>, <<>>}

\* The memory after the structure matters to a call only when the ioctl
\* has filled the structure.
BeyondOf(k) == IF k.ret # 0 THEN {<<0>>} ELSE Beyond

(***************************************************************************)
(* C.GoString(&buf[0]): copies from the pointer up to the first zero byte  *)
(* (strlen), wherever that byte is.  off is the offset of buf in mem.      *)
(* Reading to the end of mapped memory without a zero byte is a fault.     *)
(***************************************************************************)
GoString(mem, off) ==
    LET zs == {j \in (off + 1)..Len(mem) : mem[j] = 0}
    IN  IF zs = {}
        THEN [ok |-> FALSE, s |-> <<>>]
        ELSE [ok |-> TRUE, s |-> SubSeq(mem, off + 1, Min(zs) - 1)]

(***************************************************************************)
(* Line attributes.                                                        *)
(***************************************************************************)
GPIOLineAttributeFlags(v) == [kind |-> "GPIOLineAttributeFlags", Flags |-> v]
GPIOLineAttributeOutputValues(v) ==
    [kind |-> "GPIOLineAttributeOutputValues", Values |-> v]
GPIOLineAttributeDebounce(v) ==
    [kind |-> "GPIOLineAttributeDebounce", DebouncePeriodMicroseconds |-> v]

GetID(a) ==
    CASE a.kind = "GPIOLineAttributeFlags" -> GPIOLineAttributeIDFlags
      [] a.kind = "GPIOLineAttributeOutputValues" -> GPIOLineAttributeIDOutputValues
      [] a.kind = "GPIOLineAttributeDebounce" -> GPIOLineAttributeIDDebounce

\* Variant of convert_line_attribute that reads the upper half of the union
\* for a debounce attribute.
convert_line_attribute_upper(attr) ==
    CASE attr.id = GPIOLineAttributeIDFlags -> attr.payload
      [] attr.id = GPIOLineAttributeIDOutputValues -> attr.payload
      [] attr.id = GPIOLineAttributeIDDebounce ->
            {b - 32 : b \in attr.payload \cap (32..63)}
      [] OTHER -> {}

\* The C helper: the union member selected by the tag, widened to __u64.
\* debounce_period_us is the __u32 at offset 0 of the union: its low half.
convert_line_attribute(attr) ==
    CASE attr.id = GPIOLineAttributeIDFlags -> attr.payload
      [] attr.id = GPIOLineAttributeIDOutputValues -> attr.payload
      [] attr.id = GPIOLineAttributeIDDebounce -> attr.payload \cap (0..31)
      [] OTHER -> {}

\* Variant of the loop body that keeps an entry of unknown tag as Flags.
AppendAttribute_keepUnknown(attributes, attr) ==
    LET value == convert_line_attribute(attr)
    IN  CASE attr.id = GPIOLineAttributeIDOutputValues ->
                Append(attributes, GPIOLineAttributeOutputValues(Uint64(value)))
          [] attr.id = GPIOLineAttributeIDDebounce ->
                Append(attributes, GPIOLineAttributeDebounce(Uint32(value)))
          [] OTHER -> Append(attributes, GPIOLineAttributeFlags(Uint64(value)))

\* One iteration of the loop of GetLineInfo.
AppendAttribute(attributes, attr) ==
    LET value == convert_line_attribute(attr)
    IN  CASE attr.id = GPIOLineAttributeIDFlags ->
                Append(attributes, GPIOLineAttributeFlags(Uint64(value)))
          [] attr.id = GPIOLineAttributeIDOutputValues ->
                Append(attributes, GPIOLineAttributeOutputValues(Uint64(value)))
          [] attr.id = GPIOLineAttributeIDDebounce ->
                Append(attributes, GPIOLineAttributeDebounce(Uint32(value)))
          [] OTHER -> attributes

\* for i := 0; i < nAttrs; i++ { ... info.attrs[i] ... }
\* info.attrs is a Go array of NumAttrsMax elements: indexing it at
\* i >= NumAttrsMax panics (index out of range) before anything is read.
\* reads collects the indices read.
RECURSIVE DecodeAttributes(_, _, _, _)
DecodeAttributes(raw, i, attributes, reads) ==
    IF ~(i < raw.num_attrs)
    THEN [panic |-> FALSE, attributes |-> attributes, reads |-> reads]
    ELSE IF i >= NumAttrsMax
    THEN [panic |-> TRUE, attributes |-> attributes, reads |-> reads]
    ELSE DecodeAttributes(raw, i + 1,
                          AppendAttribute(attributes, raw.attrs[i + 1]),
                          reads \cup {i})

(***************************************************************************)
(* Devices: what the driver behind a path answers to the two queries.      *)
(***************************************************************************)
ZeroAttr == [id |-> 0, payload |-> {}]

\* The raw attribute array: the given entries, then zeroed slots.
AttrArray(entries) ==
    [i \in 1..NumAttrsMax |-> IF i <= Len(entries) THEN entries[i] ELSE ZeroAttr]

Full(b) == [i \in 1..NameSize |-> b]

NormalChip == [name |-> Pad(<<103>>), label |-> Pad(<<112>>), lines |-> 54]

NormalLine ==
    [name |-> Pad(<<103>>), consumer |-> Pad(<<>>), offset |-> 0,
     num_attrs |-> 2, flags |-> Bit(0) \cup Bit(3),
     attrs |-> AttrArray(<<[id |-> GPIOLineAttributeIDFlags, payload |-> {2, 3}],
                           [id |-> 99, payload |-> 0..7]>>)]

\* A well-formed device.
NormalDev == [chip |-> NormalChip, line |-> NormalLine]

\* Another chip, whose line-info answer advertises more attributes than
\* the array holds.
OverflowDev ==
    [chip |-> [name |-> Pad(<<112>>), label |-> Pad(<<103>>), lines |-> 54],
     line |-> [NormalLine EXCEPT !.num_attrs = NumAttrsMax + 1]]

\* A device whose answers fill the text buffers without a zero byte.
UntermDev ==
    [chip |-> [name |-> Full(103), label |-> Full(112), lines |-> 16843009],
     line |-> [NormalLine EXCEPT !.name = Full(103), !.consumer = Full(112)]]

\* The devices behind the first path.
SmallDevs == {NormalDev, UntermDev}

\* The device behind the second path: another chip.
OtherDev == OverflowDev

\* Devices for the decoding checks: every chip-info answer, every pair of
\* line text buffers, every attribute array with every advertised count.
ChipFamily ==
    {[chip |-> [name |-> n, label |-> l, lines |-> c], line |-> NormalLine] :
        n \in BufStrings, l \in BufStrings, c \in LineCounts}

LineTextFamily ==
    {[chip |-> NormalChip, line |-> [NormalLine EXCEPT !.name = n, !.consumer = c]] :
        n \in BufStrings, c \in BufStrings}

AttrFamily ==
    {[chip |-> NormalChip,
      line |-> [NormalLine EXCEPT !.num_attrs = n, !.attrs = a, !.flags = {}]] :
        n \in 0..(NumAttrsMax + 1), a \in [1..NumAttrsMax -> RawAttrs]}

WideDevs == ChipFamily \cup LineTextFamily \cup AttrFamily

(***************************************************************************)
(* The operating system.                                                   *)
(***************************************************************************)
\* open(2): the lowest free descriptor, or a failure.
OsOpen(path) ==
    {[fd |-> -1, errno |-> IF path \in ExistingPaths THEN EACCES ELSE ENOENT]}
    \cup (IF path \in ExistingPaths
          THEN {[fd |-> Min({fd \in Fds : fdtable[fd] = Free}), errno |-> 0]}
          ELSE {})

\* ioctl(2) on fd: EBADF when fd is no open descriptor of the process;
\* otherwise the driver answers (ret 0) or refuses (ret -1 and an errno).
KernelIoctl(fd) ==
    IF fd \notin Fds \/ fdtable[fd] = Free
    THEN {[ret |-> -1, errno |-> EBADF]}
    ELSE {[ret |-> 0, errno |-> 0]}
         \cup {[ret |-> -1, errno |-> e] : e \in {EINVAL, ENOTTY}}

(***************************************************************************)
(* os.File                                                                 *)
(***************************************************************************)
\* (*os.File).Fd(): the descriptor; -1 once the file is closed.
Fd(f) == f.Sysfd

\* Variant of ClosedFile that keeps the descriptor number in the file.
ClosedFile_keepsFd(f) == [f EXCEPT !.state = "closed"]

\* The file after (*os.File).Close().
ClosedFile(f) == [f EXCEPT !.state = "closed", !.Sysfd = -1]

(***************************************************************************)
(* The operations of src/gpio.go.                                          *)
(***************************************************************************)
NoCall ==
    [op |-> "none", h |-> 0, recv |-> NoHandle, path |-> "", arg |-> 0,
     ioctls |-> <<>>, oserr |-> 0, raw |-> NoRaw, reads |-> {},
     outcome |-> "none", result |-> NoResult, err |-> NoError]

\* Variant of OpenGPIOReturn that hands out a handle although open failed.
OpenGPIOReturn_handleOnError(path, r) ==
    IF r.errno # 0
    THEN [handle |-> [state |-> "open", Sysfd |-> r.fd, name |-> path],
          err |-> PathError(path, r.errno)]
    ELSE [handle |-> [state |-> "open", Sysfd |-> r.fd, name |-> path],
          err |-> NoError]

\* What OpenGPIO returns for the outcome r of os.OpenFile.
OpenGPIOReturn(path, r) ==
    IF r.errno # 0
    THEN [handle |-> NoHandle, err |-> PathError(path, r.errno)]
    ELSE [handle |-> [state |-> "open", Sysfd |-> r.fd, name |-> path],
          err |-> NoError]

OpenGPIO(h, path) ==
    /\ handles[h] = NoHandle
    /\ \E r \in OsOpen(path) :
         LET ret == OpenGPIOReturn(path, r)
         IN  /\ handles' = [handles EXCEPT ![h] = ret.handle]
             /\ fdtable' = IF r.errno = 0 THEN [fdtable EXCEPT ![r.fd] = path]
                           ELSE fdtable
             /\ opened' = IF r.errno = 0 THEN opened \cup {r.fd} ELSE opened
             /\ last' = [NoCall EXCEPT !.op = "OpenGPIO", !.h = h, !.path = path,
                                       !.oserr = r.errno, !.outcome = "return",
                                       !.result = IF ret.handle = NoHandle
                                                  THEN NoResult
                                                  ELSE [kind |-> "GPIO", fd |-> ret.handle],
                                       !.err = ret.err]
    /\ UNCHANGED <<dev, lineFlag, rendered>>

\* GetChipInfo after the ioctl on fd ended with k.
GetChipInfoReturn(fd, k, beyond) ==
    IF k.ret # 0
    THEN [NoCall EXCEPT !.outcome = "return", !.err = Errno(IntToUintptr(k.ret))]
    ELSE LET raw == dev[fdtable[fd]].chip
             mem == ChipMem(raw) \o beyond
             name == GoString(mem, 0)
             label == GoString(mem, NameSize)
         IN  IF ~name.ok \/ ~label.ok
             THEN [NoCall EXCEPT !.raw = raw, !.outcome = "fault"]
             ELSE [NoCall EXCEPT !.raw = raw, !.outcome = "return",
                                 !.result = [kind |-> "GPIOChipInfo", Name |-> name.s,
                                             Label |-> label.s, Lines |-> raw.lines]]

GetChipInfo(h) ==
    /\ handles[h] # NoHandle
    /\ \E k \in KernelIoctl(Fd(handles[h])) : \E beyond \in BeyondOf(k) :
         LET fd == Fd(handles[h])
             ret == GetChipInfoReturn(fd, k, beyond)
         IN  last' = [ret EXCEPT !.op = "GetChipInfo", !.h = h, !.recv = handles[h],
                                 !.ioctls = <<[fd |-> fd, req |-> "GPIO_GET_CHIPINFO_IOCTL",
                                               ret |-> k.ret, errno |-> k.errno]>>]
    /\ UNCHANGED <<handles, fdtable, opened, dev, lineFlag, rendered>>

\* GetLineInfo(line) after the ioctl on fd ended with k.
GetLineInfoReturn(fd, line, k, beyond) ==
    IF k.ret # 0
    THEN [NoCall EXCEPT !.outcome = "return", !.err = Errno(IntToUintptr(k.ret))]
    ELSE LET raw == [dev[fdtable[fd]].line EXCEPT !.offset = line]
             dec == DecodeAttributes(raw, 0, <<>>, {})
             mem == LineMem(raw) \o beyond
             name == GoString(mem, 0)
             consumer == GoString(mem, NameSize)
         IN  IF dec.panic
             THEN [NoCall EXCEPT !.raw = raw, !.reads = dec.reads, !.outcome = "panic"]
             ELSE IF ~name.ok \/ ~consumer.ok
             THEN [NoCall EXCEPT !.raw = raw, !.reads = dec.reads, !.outcome = "fault"]
             ELSE [NoCall EXCEPT !.raw = raw, !.reads = dec.reads, !.outcome = "return",
                                 !.result = [kind |-> "GPIOLineInfo", Name |-> name.s,
                                             Consumer |-> consumer.s,
                                             Offset |-> raw.offset, Flags |-> raw.flags,
                                             Attributes |-> dec.attributes]]

GetLineInfo(h, line) ==
    /\ handles[h] # NoHandle
    /\ \E k \in KernelIoctl(Fd(handles[h])) : \E beyond \in BeyondOf(k) :
         LET fd == Fd(handles[h])
             ret == GetLineInfoReturn(fd, line, k, beyond)
         IN  last' = [ret EXCEPT !.op = "GetLineInfo", !.h = h, !.recv = handles[h],
                                 !.arg = line,
                                 !.ioctls = <<[fd |-> fd, req |-> "GPIO_V2_GET_LINEINFO_IOCTL",
                                               ret |-> k.ret, errno |-> k.errno]>>]
    /\ UNCHANGED <<handles, fdtable, opened, dev, lineFlag, rendered>>

Close(h) ==
    /\ handles[h] # NoHandle
    /\ IF handles[h].state = "open"
       THEN /\ fdtable' = [fdtable EXCEPT ![handles[h].Sysfd] = Free]
            /\ handles' = [handles EXCEPT ![h] = ClosedFile(@)]
            /\ last' = [NoCall EXCEPT !.op = "Close", !.h = h, !.recv = handles[h],
                                      !.outcome = "return"]
       ELSE /\ UNCHANGED <<fdtable, handles>>
            /\ last' = [NoCall EXCEPT !.op = "Close", !.h = h, !.recv = handles[h],
                                      !.outcome = "return", !.err = ErrClosed]
    /\ UNCHANGED <<opened, dev, lineFlag, rendered>>

(***************************************************************************)
(* Spec: a caller with NumHandles handle variables, over small devices.    *)
(***************************************************************************)
Init ==
    /\ handles = [h \in Handles |-> NoHandle]
    /\ fdtable = [fd \in Fds |-> Free]
    /\ opened = {}
    /\ dev \in {[p \in ExistingPaths |-> IF p = "/dev/gpiochip0" THEN d ELSE OtherDev] :
                  d \in SmallDevs}
    /\ last = NoCall
    /\ lineFlag = {}
    /\ rendered = <<>>

Next ==
    \/ \E h \in Handles, path \in Paths : OpenGPIO(h, path)
    \/ \E h \in Handles : GetChipInfo(h)
    \/ \E h \in Handles, line \in Lines : GetLineInfo(h, line)
    \/ \E h \in Handles : Close(h)

Spec == Init /\ [][Next]_vars

(***************************************************************************)
(* SpecDecode: one open handle queried over every device of WideDevs.      *)
(***************************************************************************)
InitDecode ==
    /\ handles = [h \in Handles |->
                    IF h = 1
                    THEN [state |-> "open", Sysfd |-> 3, name |-> "/dev/gpiochip0"]
                    ELSE NoHandle]
    /\ fdtable = [fd \in Fds |-> IF fd = 3 THEN "/dev/gpiochip0" ELSE Free]
    /\ opened = {3}
    /\ dev \in {[p \in ExistingPaths |-> IF p = "/dev/gpiochip0" THEN d ELSE OtherDev] :
                  d \in WideDevs}
    /\ last = NoCall
    /\ lineFlag = {}
    /\ rendered = <<>>

NextDecode ==
    \/ GetChipInfo(1)
    \/ \E line \in Lines : GetLineInfo(1, line)

SpecDecode == InitDecode /\ [][NextDecode]_vars

(***************************************************************************)
(* GPIOLineFlag and its String method.                                     *)
(***************************************************************************)
GPIOLineFlagUsed == Bit(0)
GPIOLineFlagActiveLow == Bit(1)
GPIOLineFlagInput == Bit(2)
GPIOLineFlagOutput == Bit(3)
GPIOLineFlagEdgeRising == Bit(4)
GPIOLineFlagEdgeFalling == Bit(5)
GPIOLineFlagOpenDrain == Bit(6)
GPIOLineFlagOpenSource == Bit(7)
GPIOLineFlagBiasPullUp == Bit(8)
GPIOLineFlagBiasPullDown == Bit(9)
GPIOLineFlagBiasDisabled == Bit(10)
GPIOLineFlagEventClockRealtime == Bit(11)
GPIOLineFlagEventClockHTE == Bit(12)

\* flag&mask != 0
Has(flag, mask) == (flag \cap mask) # {}

\* if flag&mask != 0 { flags = append(flags, name) }
AppendIf(flags, flag, mask, name) ==
    IF Has(flag, mask) THEN Append(flags, name) ELSE flags

\* The list of names String builds, one test after the other.
FlagList(flag) ==
    LET f1 == AppendIf(<<>>, flag, GPIOLineFlagUsed, "Used")
        f2 == AppendIf(f1, flag, GPIOLineFlagActiveLow, "ActiveLow")
        f3 == AppendIf(f2, flag, GPIOLineFlagInput, "Input")
        f4 == AppendIf(f3, flag, GPIOLineFlagOutput, "Output")
        f5 == AppendIf(f4, flag, GPIOLineFlagEdgeRising, "EdgeRising")
        f6 == AppendIf(f5, flag, GPIOLineFlagEdgeFalling, "EdgeFalling")
        f7 == AppendIf(f6, flag, GPIOLineFlagOpenDrain, "OpenDrain")
        f8 == AppendIf(f7, flag, GPIOLineFlagOpenSource, "OpenSource")
        f9 == AppendIf(f8, flag, GPIOLineFlagBiasPullUp, "BiasPullUp")
        f10 == AppendIf(f9, flag, GPIOLineFlagBiasPullDown, "BiasPullDown")
        f11 == AppendIf(f10, flag, GPIOLineFlagBiasDisabled, "BiasDisabled")
        f12 == AppendIf(f11, flag, GPIOLineFlagEventClockRealtime, "EventClockRealtime")
        f13 == AppendIf(f12, flag, GPIOLineFlagEventClockHTE, "EventClockHTE")
    IN  f13

\* strings.Join(elems, sep)
RECURSIVE JoinFrom(_, _, _)
JoinFrom(elems, i, sep) ==
    IF i > Len(elems) THEN ""
    ELSE IF i = 1 THEN elems[1] \o JoinFrom(elems, 2, sep)
    ELSE sep \o elems[i] \o JoinFrom(elems, i + 1, sep)

Join(elems, sep) == JoinFrom(elems, 1, sep)

\* Variant of String without the special case of the empty list.
GPIOLineFlagString_noNone(flag) == Join(FlagList(flag), "|")

\* func (flag GPIOLineFlag) String() string
GPIOLineFlagString(flag) ==
    LET flags == FlagList(flag)
    IN  IF Len(flags) = 0 THEN "None" ELSE Join(flags, "|")

\* A call of flag.String().
String ==
    /\ rendered' = <<GPIOLineFlagString(lineFlag)>>
    /\ UNCHANGED <<handles, fdtable, opened, dev, last, lineFlag>>

(***************************************************************************)
(* SpecFlags: String() on every flag value over the 13 named bits and one  *)
(* bit that has no name.                                                   *)
(***************************************************************************)
FlagInputs == SUBSET (0..13)

InitFlags ==
    /\ handles = [h \in Handles |-> NoHandle]
    /\ fdtable = [fd \in Fds |-> Free]
    /\ opened = {}
    /\ dev = [p \in ExistingPaths |-> NormalDev]
    /\ last = NoCall
    /\ lineFlag \in FlagInputs
    /\ rendered = <<>>

NextFlags == String

SpecFlags == InitFlags /\ [][NextFlags]_vars

(***************************************************************************)
(* Properties.                                                             *)
(***************************************************************************)
IsQuery(c) == c.op \in {"GetChipInfo", "GetLineInfo"}

IoctlOk(c) == Len(c.ioctls) = 1 /\ c.ioctls[1].ret = 0

IoctlFailed(c) == Len(c.ioctls) = 1 /\ c.ioctls[1].ret # 0

\* C1: once Close() has been called on a handle, every later GetChipInfo()
\* and GetLineInfo(offset) on it returns no result and the bad-descriptor
\* error (EBADF), never a result and never another error value.
C1_QueryAfterCloseFailsWithEBADF ==
    (IsQuery(last) /\ last.recv.state = "closed")
        => /\ last.outcome = "return"
           /\ last.result = NoResult
           /\ last.err = Errno(Bits(EBADF))

\* C2: when the ioctl of GetChipInfo() or GetLineInfo(offset) fails with
\* OS error code e, the error returned carries exactly e, not the ioctl's
\* return status.
C2_ErrnoPreserved ==
    (IsQuery(last) /\ IoctlFailed(last))
        => /\ last.outcome = "return"
           /\ last.err = Errno(Bits(last.ioctls[1].errno))

KnownTags ==
    {GPIOLineAttributeIDFlags, GPIOLineAttributeIDOutputValues,
     GPIOLineAttributeIDDebounce}

KnownTag(a) == a.id \in KnownTags

KindOfTag(t) ==
    CASE t = 1 -> "GPIOLineAttributeFlags"
      [] t = 2 -> "GPIOLineAttributeOutputValues"
      [] t = 3 -> "GPIOLineAttributeDebounce"

\* C3: for a successful line-info answer with num_attrs raw entries, the
\* Attributes returned are exactly the entries among the first num_attrs
\* whose tag is 1, 2 or 3, in the original order, each as the variant of its
\* tag; an entry of another tag adds no element and causes no error, so the
\* length is num_attrs minus the number of entries of unknown tag.
C3_AttributesAreTheKnownEntriesInOrder ==
    (last.op = "GetLineInfo" /\ IoctlOk(last) /\ last.raw.num_attrs <= NumAttrsMax)
        => LET first == SubSeq(last.raw.attrs, 1, last.raw.num_attrs)
               known == SelectSeq(first, KnownTag)
               unknown == {i \in 1..last.raw.num_attrs : ~KnownTag(last.raw.attrs[i])}
           IN  /\ last.err = NoError
               /\ last.outcome # "panic"
               /\ last.outcome = "return" =>
                    LET out == last.result.Attributes
                    IN  /\ Len(out) = Len(known)
                        /\ Len(out) = last.raw.num_attrs - Cardinality(unknown)
                        /\ \A i \in 1..Len(known) :
                             /\ i <= Len(out)
                             /\ out[i].kind = KindOfTag(known[i].id)
                             /\ GetID(out[i]) = known[i].id

C3_Witness ==
    /\ last.op = "GetLineInfo"
    /\ IoctlOk(last)
    /\ last.outcome = "return"
    /\ last.raw.num_attrs = 2
    /\ last.raw.attrs[1].id = 99
    /\ last.raw.attrs[2].id = GPIOLineAttributeIDDebounce
    /\ Len(last.result.Attributes) = 1

\* The position in the output of the raw entry i (of known tag).
OutIndex(raw, i) == Cardinality({k \in 1..i : KnownTag(raw.attrs[k])})

\* C4: for a raw entry of payload p, tag 1 gives Flags = p unmodified,
\* tag 2 gives OutputValues = p unmodified, tag 3 gives
\* Debounce = p mod 2^32, whatever the upper 32 bits of p hold.
C4_PayloadDecoding ==
    (last.op = "GetLineInfo" /\ IoctlOk(last) /\ last.outcome = "return")
        => \A i \in 1..last.raw.num_attrs :
             LET a == last.raw.attrs[i]
                 o == last.result.Attributes[OutIndex(last.raw, i)]
             IN  /\ a.id = GPIOLineAttributeIDFlags => o.Flags = a.payload
                 /\ a.id = GPIOLineAttributeIDOutputValues => o.Values = a.payload
                 /\ a.id = GPIOLineAttributeIDDebounce =>
                      o.DebouncePeriodMicroseconds = {b \in a.payload : b < 32}

C4_Witness ==
    /\ last.op = "GetLineInfo"
    /\ IoctlOk(last)
    /\ last.outcome = "return"
    /\ last.raw.num_attrs = 2
    /\ last.raw.attrs[1] = [id |-> GPIOLineAttributeIDFlags, payload |-> {0, 31, 32, 63}]
    /\ last.raw.attrs[2] = [id |-> GPIOLineAttributeIDDebounce, payload |-> {0, 31, 32, 63}]
    /\ last.result.Attributes =
         <<GPIOLineAttributeFlags({0, 31, 32, 63}), GPIOLineAttributeDebounce({0, 31})>>

\* The text of a fixed buffer: the bytes before its first zero byte, or the
\* whole buffer when it holds no zero byte.
BufferText(buf) ==
    LET zs == {j \in 1..Len(buf) : buf[j] = 0}
    IN  IF zs = {} THEN buf ELSE SubSeq(buf, 1, Min(zs) - 1)

\* C5: a text field decoded from a buffer of capacity C is the bytes before
\* the buffer's first zero byte, and exactly the C bytes of the buffer when
\* it holds none; no byte at index >= C is read, so the text is never longer
\* than C and does not depend on what follows the buffer.
C5_TextStopsAtBufferCapacity ==
    /\ (last.op = "GetChipInfo" /\ IoctlOk(last))
         => /\ last.outcome = "return"
            /\ last.result.Name = BufferText(last.raw.name)
            /\ last.result.Label = BufferText(last.raw.label)
            /\ Len(last.result.Name) <= NameSize
            /\ Len(last.result.Label) <= NameSize
    /\ (last.op = "GetLineInfo" /\ IoctlOk(last) /\ last.raw.num_attrs <= NumAttrsMax)
         => /\ last.outcome = "return"
            /\ last.result.Name = BufferText(last.raw.name)
            /\ last.result.Consumer = BufferText(last.raw.consumer)
            /\ Len(last.result.Name) <= NameSize
            /\ Len(last.result.Consumer) <= NameSize

FlagNames ==
    <<"Used", "ActiveLow", "Input", "Output", "EdgeRising", "EdgeFalling",
      "OpenDrain", "OpenSource", "BiasPullUp", "BiasPullDown", "BiasDisabled",
      "EventClockRealtime", "EventClockHTE">>

Max(S) == CHOOSE x \in S : \A y \in S : y <= x

\* The names of the bits of S, lowest bit first, separated by "|".
RECURSIVE Listing(_)
Listing(S) ==
    LET m == Max(S)
    IN  IF S = {m} THEN FlagNames[m + 1]
        ELSE Listing(S \ {m}) \o "|" \o FlagNames[m + 1]

\* C6: String() returns the names of the set bits joined by "|" in the
\* declaration order, each set named bit once and no unset bit; "None" when
\* no named bit is set; the bare name when exactly one is set.
C6_FlagRendering ==
    rendered # <<>>
        => LET named == lineFlag \cap (0..12)
           IN  /\ named = {} => rendered[1] = "None"
               /\ named # {} => rendered[1] = Listing(named)
               /\ \A b \in 0..12 : named = {b} => rendered[1] = FlagNames[b + 1]

C6_Witness ==
    /\ lineFlag = {0, 2, 12, 13}
    /\ rendered = <<"Used|Input|EventClockHTE">>

\* C7 as stated: a failed Open returns no handle and an error wrapping the
\* OS error, and performs no ioctl; an ioctl is only ever issued on a
\* descriptor obtained from a successful Open.
C7_IoctlOnlyOnOpenedDescriptor ==
    /\ (last.op = "OpenGPIO" /\ last.oserr # 0)
         => /\ last.result = NoResult
            /\ handles[last.h] = NoHandle
            /\ last.err = PathError(last.path, last.oserr)
            /\ last.ioctls = <<>>
    /\ \A i \in 1..Len(last.ioctls) : last.ioctls[i].fd \in opened

\* C7 amended: a failed Open returns no handle and an error wrapping the OS
\* error, and performs no ioctl; an ioctl is only ever issued by a query on
\* a handle a successful Open returned, on the descriptor that Open obtained
\* while the handle is open and on the invalid descriptor -1 once the
\* handle is closed.
C7_IoctlOnlyThroughOpenedHandle ==
    /\ (last.op = "OpenGPIO" /\ last.oserr # 0)
         => /\ last.result = NoResult
            /\ handles[last.h] = NoHandle
            /\ last.err = PathError(last.path, last.oserr)
            /\ last.ioctls = <<>>
    /\ last.op = "OpenGPIO" => last.ioctls = <<>>
    /\ \A h \in Handles :
         handles[h].state = "open" => handles[h].Sysfd \in opened
    /\ \A i \in 1..Len(last.ioctls) :
         /\ IsQuery(last)
         /\ last.recv.state \in {"open", "closed"}
         /\ last.recv.state = "open" => last.ioctls[i].fd \in opened
         /\ last.recv.state = "closed" => last.ioctls[i].fd = -1

C7_Witness ==
    /\ last.op = "OpenGPIO"
    /\ last.path = "/dev/gpiochip999"
    /\ last.oserr = ENOENT
    /\ last.err = PathError("/dev/gpiochip999", ENOENT)
    /\ \E h \in Handles : handles[h].state = "closed"

\* C8: GetLineInfo never reads a raw attribute entry at an index at or
\* beyond the capacity of the array and never returns more attributes than
\* the capacity; when num_attrs is out of range it returns an error to the
\* caller rather than proceeding or crashing.
C8_OutOfRangeNumAttrsIsAnError ==
    (last.op = "GetLineInfo" /\ IoctlOk(last))
        => /\ \A i \in last.reads : i < NumAttrsMax
           /\ last.result # NoResult => Len(last.result.Attributes) <= NumAttrsMax
           /\ last.raw.num_attrs > NumAttrsMax
                => /\ last.outcome = "return"
                   /\ last.result = NoResult
                   /\ last.err # NoError

\* C9: each GetChipInfo() or GetLineInfo(offset) issues exactly one ioctl,
\* on the handle's descriptor; when it fails the call returns an error and
\* no result, when it succeeds the call returns a result and no error.
C9_OneIoctlAndResultXorError ==
    IsQuery(last)
        => /\ Len(last.ioctls) = 1
           /\ last.ioctls[1].fd = last.recv.Sysfd
           /\ last.ioctls[1].ret # 0
                => /\ last.outcome = "return"
                   /\ last.result = NoResult
                   /\ last.err # NoError
           /\ last.ioctls[1].ret = 0
                => /\ last.outcome = "return"
                   /\ last.result # NoResult
                   /\ last.err = NoError

\* C10: with several handles on distinct descriptors, a query issues its
\* ioctl on the descriptor of its own handle and returns what its own
\* device answers; a query or Close on one handle changes no state of
\* another handle and no process-wide state, and a query changes no state
\* at all (nothing is cached).
C10_HandlesAreIndependent ==
    [][LET c == last'
           h == c.h
       IN  /\ (IsQuery(c) \/ c.op = "Close")
                => /\ \A g \in Handles \ {h} :
                        /\ handles'[g] = handles[g]
                        /\ handles[g].state = "open"
                             => fdtable'[handles[g].Sysfd] = fdtable[handles[g].Sysfd]
                   /\ dev' = dev
                   /\ opened' = opened
           /\ IsQuery(c)
                => /\ handles' = handles
                   /\ fdtable' = fdtable
                   /\ Len(c.ioctls) = 1
                   /\ \A g \in Handles \ {h} :
                        handles[g].state = "open" => c.ioctls[1].fd # handles[g].Sysfd
                   /\ IF handles[h].state = "open"
                      THEN /\ c.ioctls[1].fd = handles[h].Sysfd
                           /\ fdtable[c.ioctls[1].fd] = handles[h].name
                           /\ (c.ioctls[1].ret = 0 /\ c.op = "GetChipInfo")
                                => /\ c.raw = dev[handles[h].name].chip
                                   /\ c.outcome = "return"
                                        => c.result.Lines = dev[handles[h].name].chip.lines
                           /\ (c.ioctls[1].ret = 0 /\ c.op = "GetLineInfo")
                                => /\ c.raw = [dev[handles[h].name].line EXCEPT !.offset = c.arg]
                                   /\ c.outcome = "return"
                                        => /\ c.result.Offset = c.arg
                                           /\ c.result.Flags = dev[handles[h].name].line.flags
                      ELSE /\ c.ioctls[1].fd \notin {fd \in Fds : fdtable[fd] # Free}
                           /\ c.ioctls[1].ret # 0
                           /\ c.result = NoResult
      ]_vars

C10_Witness ==
    /\ \E g, h \in Handles :
         /\ g # h
         /\ handles[g].state = "open"
         /\ handles[h].state = "closed"
         /\ handles[g].Sysfd = 3
         /\ handles[g].name = "/dev/gpiochip1"
         /\ handles[h].name = "/dev/gpiochip0"
         /\ last.h = g
    /\ last.op = "GetChipInfo"
    /\ IoctlOk(last)
    /\ last.outcome = "return"
    /\ last.result.Name = <<112>>

====
